---- MODULE Spec2Model ----
(***************************************************************************)
(* State-machine model of servers/thermoelectric/server.py: the tools      *)
(* generate_calypso_structure, calculate_enthalpy and                      *)
(* screen_thermoelectric_candidate (with predict_thermoelectric_properties *)
(* as it is called from the screening), the file-system state they act on, *)
(* and the result each call hands back.                                    *)
(*                                                                         *)
(* Units: radii are held in 1/1000 (as in ELEMENT_PROPS), the radius       *)
(* matrix in 1/1000000 (radius sum times 529), the formatted matrix        *)
(* entries in 1/1000 (the "%.3f" text), volumes in 1/100; band gaps in     *)
(* 1/100 eV, moduli in GPa, densities in kg/m^3, sound velocities in m/s,  *)
(* energies above the hull in 1/10000000 eV.                               *)
(***************************************************************************)
EXTENDS Integers, Sequences, FiniteSets, TLC

\* ------------------------------------------------------------------ bounds
MaxNTot == 2
MaxPredLines == 2
MaxHullLen == 4
MaxReportLen == 2
MaxStructs == 3
MaxGenCalls == 2

\* ------------------------------------------------------- program constants
CountLo == 1
CountHi == 10
BohrToAngstrom == 529
HullThreshold == 500000
BandGapLimit == 50
SpaceGroupLimit == 75

\* ----------------------------------------------------------------- inputs
\* The slice of ELEMENT_PROPS the inputs below draw from (Z, r x 1000, v x 100).
ELEMENT_PROPS ==
    ("H"  :> [Z |-> 1,  r |-> 612,  v |-> 800])  @@
    ("O"  :> [Z |-> 8,  r |-> 1320, v |-> 1729]) @@
    ("Na" :> [Z |-> 11, r |-> 1595, v |-> 3694]) @@
    ("Mg" :> [Z |-> 12, r |-> 1870, v |-> 2240])

\* Species arguments tried: empty, sorted, unsorted, repeated symbol (equal
\* sort keys), and symbols that are not in the element table.
SpeciesInputs ==
    { <<>>, <<"O">>, <<"Mg", "O">>, <<"O", "Mg">>, <<"O", "O">>,
      <<"Mg", "H", "O">>, <<"O", "Na", "O">>, <<"Xx">>, <<"Mg", "Xx">> }

NTotInputs == 0..MaxNTot

\* Species arguments of the calls made one after another.
SeqSpeciesInputs == { <<"O">>, <<"Xx">> }

\* --------------------------------------------------------------- messages
MsgInputFailed   == "Input files generations for calypso failed!"
MsgFlimMissing   == "flim_ase.py did not found!"
MsgCalypsoFailed == "calypso.x execute failed!"
MsgGenSuccess    == "Calypso generated n_tot structures successfully!"
MsgCollectFailed == "Calypso generated POSCAR files collected failed!"

\* ------------------------------------------------------------ result shape
Pending == [status |-> "pending", payload |-> <<>>, message |-> ""]
Returned(payload, message) ==
    [status |-> "returned", payload |-> payload, message |-> message]
Raised(exc) == [status |-> "raised", payload |-> <<>>, message |-> exc]

\* Python's None, [] and {}: the values a failure return puts in a payload field.
EmptyValues == {"None", "[]", "{}"}

VARIABLES
    result,      \* what the call in progress / last call handed to the caller
    tool,        \* the tool that was called
    \* generate_calypso_structure
    gpc,         \* position in the call: idle, write, check, invoke, prune, collect, done
    gcall,       \* number of generate calls started so far
    priorOk,     \* every earlier generate call returned success
    species,     \* argument
    n_tot,       \* argument
    gi,          \* loop variable i
    n_list,      \* the counts drawn for candidate gi
    inputDat,    \* text of the input.dat last written by write_input
    ws,          \* generated_calypso/<i>: directory, entries, origin of POSCAR_1
    finalDir,    \* outputs/poscars_for_optimization/POSCAR_<k>
    written,     \* indexes whose input.dat this call has written
    invoked,     \* indexes for which this call has run the external command
    pruned,      \* indexes whose workspace this call has pruned
    enumOrder,   \* order in which outdir.iterdir() listed the workspaces
    copies,      \* copies the collection step of this call made, in order
    \* calculate_enthalpy
    epc,         \* the try block the call is about to enter, or idle / done
    started,     \* try blocks this call has entered, in order
    succeeded,   \* try blocks this call has left without an exception
    artifacts,   \* files and directories this call has written so far
    hull,        \* geo_opt/convexhull.csv, the dataset kept across calls
    hullAtStart, \* hull as the call in progress found it
    enthalpyCsv, \* outputs/enthalpy.csv
    predOut,     \* prediction/prediction.all.out, one token list per line
    formula,     \* the local variable formula: <<>> while unbound, else <<value>>
    cause,       \* the try block whose work caused the failure of this call
    report,      \* outputs/e_above_hull_50meV.csv as the hull build of this call left it
    onhull,      \* paths this call has copied into outputs/onhull_structures
    copyFailed,  \* paths whose copy raised in this call (the exception is swallowed)
    \* screen_thermoelectric_candidate
    spc,         \* position in the call: idle, predict, filter, write, done
    sdir,        \* the structure files found under structure_path
    structures,  \* the list predict_thermoelectric_properties iterates over
    si,          \* position of the prediction loop in structures
    results,     \* the mapping formula -> properties built by the prediction loop
    predicted,   \* structure files whose band_gap, G and K were all predicted
    predFailure, \* why the delegated prediction failed in this call, or "none"
    properties,  \* structures_properties: what the screening got from the prediction
    fi,          \* position of the screening loop in properties
    candidates,  \* thermoelectric_candidates, in insertion order
    sgComputed,  \* structure files whose space group this call has computed
    candFile,    \* outputs/thermoelectric_material_candidates.json
    candWritten, \* this call has opened the candidates file for writing
    \* concurrent calculate_enthalpy calls
    serialized,  \* the caller admits one call at a time
    cpc,         \* per call: idle, predict, enthalpy_file, append, done, failed
    cown,        \* per call: the prediction output its own predictor run wrote
    cappended    \* per call: the rows it appended to the dataset

gvars == <<gpc, gcall, priorOk, species, n_tot, gi, n_list, inputDat, ws, finalDir,
           written, invoked, pruned, enumOrder, copies>>
evars == <<epc, started, succeeded, artifacts, hull, hullAtStart, enthalpyCsv,
           predOut, formula, cause>>
hvars == <<report, onhull, copyFailed>>
svars == <<spc, sdir, structures, si, results, predicted, predFailure, properties,
           fi, candidates, sgComputed, candFile, candWritten>>
cvars == <<serialized, cpc, cown, cappended>>
nongen == <<evars, hvars, svars, cvars>>
nonenth == <<gvars, svars, cvars>>
vars == <<result, tool, gvars, evars, hvars, svars, cvars>>

\* ------------------------------------------------------------- file system
Kinds == {"none", "file", "dir", "other"}
EntryNames == {"input.dat", "POSCAR_1", "tmp_log", "results", "lnk"}
NoEntries == [n \in EntryNames |-> "none"]
NoWorkspace == [dir |-> FALSE, ent |-> NoEntries, gen |-> 0]
WsIndex == 0..(MaxNTot - 1)
NoStructure == [src |-> -1, gen |-> 0]
NoInput == [written |-> FALSE]

\* ------------------------------------------------------------ get_props
Unsupported(s_list) ==
    \E k \in 1..Len(s_list) : s_list[k] \notin DOMAIN ELEMENT_PROPS

get_props(s_list) ==
    [z_list |-> [k \in 1..Len(s_list) |-> ELEMENT_PROPS[s_list[k]].Z],
     r_list |-> [k \in 1..Len(s_list) |-> ELEMENT_PROPS[s_list[k]].r],
     v_list |-> [k \in 1..Len(s_list) |-> ELEMENT_PROPS[s_list[k]].v]]

\* ------------------------------------------------------- generate_counts
generate_countsLow(n) == [1..n -> (CountLo - 1)..CountHi]
generate_counts(n) == [1..n -> CountLo..CountHi]

\* --------------------------------------------------------------- write_input
RECURSIVE SumTo(_, _)
SumTo(f, n) == IF n = 0 THEN 0 ELSE f[n] + SumTo(f, n - 1)

Volume(ns, v_list) == SumTo([k \in 1..Len(ns) |-> ns[k] * v_list[k]], Len(ns))

\* np.add.outer(r_list, r_list) * 0.529
RadiusMatrix(r_list) ==
    [i \in 1..Len(r_list) |->
        [j \in 1..Len(r_list) |-> (r_list[i] + r_list[j]) * BohrToAngstrom]]

\* sorted(range(len(z_list)), key=lambda i: z_list[i]): stable, ascending.
RECURSIVE InsertByKey(_, _, _)
InsertByKey(sorted, i, z) ==
    IF sorted = <<>> THEN <<i>>
    ELSE IF z[Head(sorted)] <= z[i]
         THEN <<Head(sorted)>> \o InsertByKey(Tail(sorted), i, z)
         ELSE <<i>> \o sorted

RECURSIVE SortPrefix(_, _)
SortPrefix(z, n) ==
    IF n = 0 THEN <<>> ELSE InsertByKey(SortPrefix(z, n - 1), n, z)

SortedIndicesUnsorted(z) == [k \in 1..Len(z) |-> k]
SortedIndices(z) == SortPrefix(z, Len(z))

\* f"{x:.3f}" of a value held in 1/1000000, as thousandths.
Fmt3(x) == (x + 500) \div 1000

MatrixRowsOnly(r_mat, idx) ==
    [i \in 1..Len(idx) |-> [j \in 1..Len(idx) |-> r_mat[idx[i]][j]]]
\* r_mat[np.ix_(sorted_indices, sorted_indices)]
PermuteMatrix(r_mat, idx) ==
    [i \in 1..Len(idx) |-> [j \in 1..Len(idx) |-> r_mat[idx[i]][idx[j]]]]

write_input(sp, z_list, ns, r_mat, volume) ==
    LET idx == SortedIndices(z_list)
        sp2 == [k \in 1..Len(idx) |-> sp[idx[k]]]
        z2  == [k \in 1..Len(idx) |-> z_list[idx[k]]]
        n2  == [k \in 1..Len(idx) |-> ns[idx[k]]]
        m2  == PermuteMatrix(r_mat, idx)
    IN  [written         |-> TRUE,
         SystemName      |-> sp2,
         NumberOfSpecies |-> Len(sp2),
         NameOfAtoms     |-> sp2,
         DistanceOfIon   |-> [i \in 1..Len(idx) |->
                                [j \in 1..Len(idx) |-> Fmt3(m2[i][j])]],
         Volume          |-> volume,
         AtomicNumber    |-> z2,
         NumberOfAtoms   |-> n2]

\* ------------------------------------------------- external predictor run
\* What "calypso.x >> tmp_log && python flim_ase.py" may leave in its working
\* directory: the shell redirection always creates tmp_log; the tools may write
\* the structure POSCAR_1, a results directory, and an entry that is neither a
\* regular file nor a directory (a dangling symbolic link, a FIFO).  The tools
\* delete nothing the server wrote.
ToolOutputs ==
    { o \in [EntryNames -> Kinds] :
        /\ o["input.dat"] = "none"
        /\ o["tmp_log"] = "file"
        /\ o["POSCAR_1"] \in {"none", "file"}
        /\ o["results"] \in {"none", "dir"}
        /\ o["lnk"] \in {"none", "other"} }

MergeEntries(ent, out) ==
    [n \in EntryNames |-> IF out[n] # "none" THEN out[n] ELSE ent[n]]

\* ------------------------------------------------------------------ prune
KeepNamesNoInput == {"POSCAR_1"}
KeepNames == {"input.dat", "POSCAR_1"}

\* for file in struct_dir.iterdir(): unlink a file, rmtree a directory.
PruneEntries(ent) ==
    [n \in EntryNames |->
        IF n \in KeepNames THEN ent[n]
        ELSE IF ent[n] = "file" THEN "none"
        ELSE IF ent[n] = "dir" THEN "none"
        ELSE ent[n]]

Deletable(ent) ==
    \E n \in EntryNames \ KeepNames : ent[n] \in {"file", "dir"}

\* ------------------------------------------------------------- collection
PoscarExists(w) == w.ent["POSCAR_1"] # "none"

Orders(S) ==
    { f \in [1..Cardinality(S) -> S] : \A x \in S : \E k \in DOMAIN f : f[k] = x }

\* for struct_dir in outdir.iterdir(): copy POSCAR_1 to POSCAR_<counter>.
\* failAt is the position at which shutil.copy raises (0: it never does).
RECURSIVE CollectLoopSkipping(_, _, _, _, _, _)
CollectLoopSkipping(wss, enum, pos, counter, done, failAt) ==
    IF pos > Len(enum) THEN [ok |-> TRUE, copies |-> done]
    ELSE IF PoscarExists(wss[enum[pos]])
         THEN IF pos = failAt THEN [ok |-> FALSE, copies |-> done]
              ELSE CollectLoopSkipping(wss, enum, pos + 1, counter + 1,
                       Append(done, [idx |-> counter, src |-> enum[pos]]), failAt)
         ELSE CollectLoopSkipping(wss, enum, pos + 1, counter + 1, done, failAt)

RECURSIVE CollectLoop(_, _, _, _, _, _)
CollectLoop(wss, enum, pos, counter, done, failAt) ==
    IF pos > Len(enum) THEN [ok |-> TRUE, copies |-> done]
    ELSE IF PoscarExists(wss[enum[pos]])
         THEN IF pos = failAt THEN [ok |-> FALSE, copies |-> done]
              ELSE CollectLoop(wss, enum, pos + 1, counter + 1,
                       Append(done, [idx |-> counter, src |-> enum[pos]]), failAt)
         ELSE CollectLoop(wss, enum, pos + 1, counter, done, failAt)

RECURSIVE ApplyCopies(_, _, _)
ApplyCopies(fd, wss, cs) ==
    IF cs = <<>> THEN fd
    ELSE ApplyCopies([fd EXCEPT ![Head(cs).idx] =
                         [src |-> Head(cs).src, gen |-> wss[Head(cs).src].gen]],
                     wss, Tail(cs))

\* ------------------------------------------- generate_calypso_structure
GenFailure(msg) == Returned(("poscar_paths" :> "None"), msg)
GenSuccess == Returned(("poscar_paths" :> "path"), MsgGenSuccess)

LoopPc(i, n) == IF i < n THEN "write" ELSE "collect"

GenInit ==
    /\ gpc = "idle"
    /\ gcall = 0
    /\ priorOk = TRUE
    /\ species = <<>>
    /\ n_tot = 0
    /\ gi = 0
    /\ n_list = <<>>
    /\ inputDat = NoInput
    /\ ws = [i \in WsIndex |-> NoWorkspace]
    /\ finalDir = [k \in WsIndex |-> NoStructure]
    /\ written = {}
    /\ invoked = {}
    /\ pruned = {}
    /\ enumOrder = <<>>
    /\ copies = <<>>

\* Entry: outdir.mkdir and get_props run outside any try block.
GenEnter(sp, n, mkdirOk) ==
    /\ gcall' = gcall + 1
    /\ priorOk' = (priorOk /\ (gcall = 0 \/ result = GenSuccess))
    /\ species' = sp
    /\ n_tot' = n
    /\ gi' = 0
    /\ n_list' = <<>>
    /\ inputDat' = NoInput
    /\ written' = {}
    /\ invoked' = {}
    /\ pruned' = {}
    /\ enumOrder' = <<>>
    /\ copies' = <<>>
    /\ tool' = "generate_calypso_structure"
    /\ UNCHANGED <<ws, finalDir, nongen>>
    /\ IF ~mkdirOk
       THEN /\ result' = Raised("OSError")
            /\ gpc' = "done"
       ELSE IF Unsupported(sp)
       THEN /\ result' = Raised("ValueError")
            /\ gpc' = "done"
       ELSE /\ result' = Pending
            /\ gpc' = LoopPc(0, n)

\* The first call.
GenCall(sp, n, mkdirOk) ==
    /\ gpc = "idle"
    /\ GenEnter(sp, n, mkdirOk)

\* A later call: generated_calypso and outputs are as the earlier calls left them.
GenAgain(sp, n, mkdirOk) ==
    /\ gpc = "done"
    /\ gcall < MaxGenCalls
    /\ GenEnter(sp, n, mkdirOk)

\* Loop body, first try block: draw the counts and write input.dat.
WriteInputOk ==
    /\ gpc = "write"
    /\ \E ns \in generate_counts(Len(species)) :
         LET p == get_props(species) IN
         /\ n_list' = ns
         /\ inputDat' = write_input(species, p.z_list, ns,
                                    RadiusMatrix(p.r_list), Volume(ns, p.v_list))
    /\ ws' = [ws EXCEPT ![gi].dir = TRUE, ![gi].ent["input.dat"] = "file"]
    /\ written' = written \cup {gi}
    /\ gpc' = "check"
    /\ UNCHANGED <<tool, nongen, result, gcall, priorOk, species, n_tot, gi, finalDir, invoked, pruned,
                   enumOrder, copies>>

\* mkdir or open/write raised: the except clause returns the failure.
WriteInputFail(dirMade) ==
    /\ gpc = "write"
    /\ ws' = [ws EXCEPT ![gi].dir = @ \/ dirMade]
    /\ result' = GenFailure(MsgInputFailed)
    /\ gpc' = "done"
    /\ UNCHANGED <<tool, nongen, gcall, priorOk, species, n_tot, gi, n_list, inputDat, finalDir, written,
                   invoked, pruned, enumOrder, copies>>

CheckScriptAfterRun(exists) ==
    /\ gpc = "check"
    /\ IF exists
       THEN /\ gpc' = "invoke"
            /\ UNCHANGED <<result, invoked>>
       ELSE /\ gpc' = "done"
            /\ invoked' = invoked \cup {gi}
            /\ result' = GenFailure(MsgFlimMissing)
    /\ UNCHANGED <<tool, nongen, gcall, priorOk, species, n_tot, gi, n_list, inputDat, ws, finalDir,
                   written, pruned, enumOrder, copies>>
\* if not flim_ase_path.exists(): return
CheckScript(exists) ==
    /\ gpc = "check"
    /\ IF exists
       THEN /\ gpc' = "invoke"
            /\ UNCHANGED result
       ELSE /\ gpc' = "done"
            /\ result' = GenFailure(MsgFlimMissing)
    /\ UNCHANGED <<tool, nongen, gcall, priorOk, species, n_tot, gi, n_list, inputDat, ws, finalDir,
                   written, invoked, pruned, enumOrder, copies>>

\* subprocess.run(command, cwd=struct_dir, shell=True): the exit code is not read.
Invoke(out) ==
    /\ gpc = "invoke"
    /\ ws' = [ws EXCEPT ![gi].ent = MergeEntries(@, out),
                        ![gi].gen = IF out["POSCAR_1"] # "none" THEN gcall ELSE @]
    /\ invoked' = invoked \cup {gi}
    /\ n_list' = <<>>
    /\ inputDat' = NoInput
    /\ gpc' = "prune"
    /\ UNCHANGED <<tool, nongen, result, gcall, priorOk, species, n_tot, gi, finalDir, written, pruned,
                   enumOrder, copies>>

\* subprocess.run raised (the shell could not be started).
InvokeFail ==
    /\ gpc = "invoke"
    /\ result' = GenFailure(MsgCalypsoFailed)
    /\ n_list' = <<>>
    /\ inputDat' = NoInput
    /\ gpc' = "done"
    /\ UNCHANGED <<tool, nongen, gcall, priorOk, species, n_tot, gi, ws, finalDir, written, invoked,
                   pruned, enumOrder, copies>>

\* The clean-up loop, then the next iteration.
Prune ==
    /\ gpc = "prune"
    /\ ws' = [ws EXCEPT ![gi].ent = PruneEntries(@)]
    /\ pruned' = pruned \cup {gi}
    /\ gi' = gi + 1
    /\ gpc' = LoopPc(gi + 1, n_tot)
    /\ UNCHANGED <<tool, nongen, result, gcall, priorOk, species, n_tot, n_list, inputDat, finalDir,
                   written, invoked, enumOrder, copies>>

\* unlink / rmtree raised: the clean-up loop is outside any try block.
PruneFail ==
    /\ gpc = "prune"
    /\ Deletable(ws[gi].ent)
    /\ result' = Raised("OSError")
    /\ gpc' = "done"
    /\ UNCHANGED <<tool, nongen, gcall, priorOk, species, n_tot, gi, n_list, inputDat, ws, finalDir,
                   written, invoked, pruned, enumOrder, copies>>

\* Step 3: collect POSCAR_1 of every workspace under generated_calypso.
Collect(enum, failAt) ==
    /\ gpc = "collect"
    /\ LET r == CollectLoop(ws, enum, 1, 0, <<>>, failAt) IN
         /\ copies' = r.copies
         /\ finalDir' = ApplyCopies(finalDir, ws, r.copies)
         /\ result' = IF r.ok THEN GenSuccess ELSE GenFailure(MsgCollectFailed)
    /\ enumOrder' = enum
    /\ gpc' = "done"
    /\ UNCHANGED <<tool, nongen, gcall, priorOk, species, n_tot, gi, n_list, inputDat, ws, written,
                   invoked, pruned>>

\* output_dir.mkdir / final_dir.mkdir raised.
CollectMkdirFail ==
    /\ gpc = "collect"
    /\ result' = GenFailure(MsgCollectFailed)
    /\ gpc' = "done"
    /\ UNCHANGED <<tool, nongen, gcall, priorOk, species, n_tot, gi, n_list, inputDat, ws, finalDir,
                   written, invoked, pruned, enumOrder, copies>>

ExistingWs == { i \in WsIndex : ws[i].dir }

GenSteps ==
    \/ WriteInputOk
    \/ \E d \in BOOLEAN : WriteInputFail(d)
    \/ \E e \in BOOLEAN : CheckScript(e)
    \/ \E out \in ToolOutputs : Invoke(out)
    \/ InvokeFail
    \/ Prune
    \/ PruneFail
    \/ \E enum \in Orders(ExistingWs), f \in 0..MaxNTot : Collect(enum, f)
    \/ CollectMkdirFail

GenNext ==
    \/ \E sp \in SpeciesInputs, n \in NTotInputs, ok \in BOOLEAN : GenCall(sp, n, ok)
    \/ GenSteps

\* Calls one after another, for the species lists of SeqSpeciesInputs.
GenSeqNext ==
    \/ \E sp \in SeqSpeciesInputs, n \in NTotInputs, ok \in BOOLEAN : GenCall(sp, n, ok)
    \/ \E sp \in SeqSpeciesInputs, n \in NTotInputs, ok \in BOOLEAN : GenAgain(sp, n, ok)
    \/ GenSteps

\* ===================================================== calculate_enthalpy
MsgGeoOpt       == "Geometry Optimization failed!"
MsgParseTraj    == "Screen traj failed!"
MsgToPoscar     == "Convert optimized structure to POSCAR failed!"
MsgPredict      == "Enthalpy Predictions failed!"
MsgEnthalpyFile == "Enthalpy file save failed!"
MsgAppend       == "Convexhull.csv file save failed!"
MsgUpdateInput  == "Update input.dat failed!"
MsgHullBuild    == "Convex hull build failed"
MsgCollectHull  == "Collect on hull optimized poscar files failed!"
MsgOuter        == "Geometry optimization failed!"
MsgEnthSuccess  == "Entalpy calculated successfully"

\* The try blocks of the function body, in textual order.
Blocks ==
    << "discover", "geo_opt", "parse_traj", "to_poscar", "predict",
       "enthalpy_file", "append", "update_input", "hull_build", "collect_onhull" >>

FailureMessage(block) ==
    CASE block = "discover"       -> MsgOuter
      [] block = "geo_opt"        -> MsgGeoOpt
      [] block = "parse_traj"     -> MsgParseTraj
      [] block = "to_poscar"      -> MsgToPoscar
      [] block = "predict"        -> MsgPredict
      [] block = "enthalpy_file"  -> MsgEnthalpyFile
      [] block = "append"         -> MsgAppend
      [] block = "update_input"   -> MsgUpdateInput
      [] block = "hull_build"     -> MsgHullBuild
      [] block = "collect_onhull" -> MsgCollectHull

BlockIndex(block) == CHOOSE k \in DOMAIN Blocks : Blocks[k] = block

NextBlock(block) ==
    IF BlockIndex(block) < Len(Blocks) THEN Blocks[BlockIndex(block) + 1] ELSE "done"

\* Every except clause returns: the call is over.
AfterFailureFallThrough(block) == NextBlock(block)
AfterFailure(block) == "done"

EnthFailure(block) ==
    IF block = "discover"
    THEN Returned(<<>>, FailureMessage(block))
    ELSE Returned(("enthalpy_file" :> "[]") @@ ("onhull_structures" :> "[]"),
                  FailureMessage(block))

EnthSuccess ==
    Returned(("enthalpy_file" :> "path") @@ ("onhull_structures" :> "path"),
             MsgEnthSuccess)

\* ------------------------------------------------- prediction.all.out
\* A line is the list of its whitespace-separated tokens (line.split()).
Rec1 == << "POSCAR_0", "0", "-1.5", "0", "0", "MgO" >>
Rec2 == << "POSCAR_1", "0", "-2.0", "0", "0", "Mg2O" >>
ShortLine == << "POSCAR_2", "0", "-3.0" >>
BlankLine == << >>
PredLines == {Rec1, Rec2, ShortLine, BlankLine}
PredOutputs == UNION { [1..n -> PredLines] : n \in 0..MaxPredLines }

CsvHeader == << "Number", "formula", "enthalpy" >>

\* The loop over prediction.all.out: blank lines are skipped, parts[0], parts[2]
\* and parts[5] are written as one csv row; a line with fewer than six tokens
\* raises IndexError and the rows written before it stay in the file.
RECURSIVE ParseLoopNewestFirst(_, _, _, _)
ParseLoopNewestFirst(lines, pos, rows, f) ==
    IF pos > Len(lines) THEN [ok |-> TRUE, rows |-> rows, formula |-> f]
    ELSE LET parts == lines[pos] IN
         IF parts = << >> THEN ParseLoopNewestFirst(lines, pos + 1, rows, f)
         ELSE IF Len(parts) < 6 THEN [ok |-> FALSE, rows |-> rows, formula |-> f]
         ELSE ParseLoopNewestFirst(lines, pos + 1,
                        << << parts[1], parts[6], parts[3] >> >> \o rows,
                        << parts[6] >>)

RECURSIVE ParseLoop(_, _, _, _)
ParseLoop(lines, pos, rows, f) ==
    IF pos > Len(lines) THEN [ok |-> TRUE, rows |-> rows, formula |-> f]
    ELSE LET parts == lines[pos] IN
         IF parts = << >> THEN ParseLoop(lines, pos + 1, rows, f)
         ELSE IF Len(parts) < 6 THEN [ok |-> FALSE, rows |-> rows, formula |-> f]
         ELSE ParseLoop(lines, pos + 1,
                        Append(rows, << parts[1], parts[6], parts[3] >>),
                        << parts[6] >>)

\* lines[1:] of enthalpy.csv
DataLinesWithHeader(lines) == lines
DataLines(lines) == IF lines = << >> THEN << >> ELSE Tail(lines)

\* ------------------------------------------------ e_above_hull_50meV.csv
\* A line of the report is the list line.split(' ') gives for it.  The hull
\* build (cak3.py) writes the report; its rows name optimized structures.
HeaderRow  == << "Number", "e_above_hull", "formula", "path" >>
RowOnHull  == << "0", "0.05", "MgO", "optimized_poscar/POSCAR_0" >>
RowAbove   == << "1", "0.0500001", "MgO", "optimized_poscar/POSCAR_1" >>
RowMissing == << "2", "0.0", "MgO", "optimized_poscar/POSCAR_9" >>
RowDigits  == << "4", "0.0", "12", "0/4" >>
RowShort   == << "3", "0.0", "optimized_poscar/POSCAR_3" >>
DataRows == {RowOnHull, RowAbove, RowMissing, RowDigits, RowShort}

\* Reports of up to MaxReportLen lines, with and without a header row.
Reports ==
    { rep \in UNION { [1..n -> DataRows \cup {HeaderRow}] : n \in 0..MaxReportLen } :
        \A k \in 2..Len(rep) : rep[k] # HeaderRow }

\* Tokens in which some character is alphabetic (c.isalpha()).
AlphaTokens ==
    { "Number", "e_above_hull", "formula", "path", "MgO",
      "optimized_poscar/POSCAR_0", "optimized_poscar/POSCAR_1",
      "optimized_poscar/POSCAR_3", "optimized_poscar/POSCAR_9" }
HasAlpha(parts) == \E k \in 1..Len(parts) : parts[k] \in AlphaTokens

\* float(token), in 1/10000000; a token outside the domain raises ValueError.
ParseFloat ==
    ("0.05" :> 500000) @@ ("0.0500001" :> 500001) @@ ("0.0" :> 0)

\* Path.is_file() for the paths the report may name.
ExistingFiles == { "optimized_poscar/POSCAR_0", "optimized_poscar/POSCAR_1", "0/4" }

\* The sets of paths whose shutil.copy may raise in one call.
CopyFailures == { {}, {"optimized_poscar/POSCAR_0"} }

\* The loop over the lines of the report; bad is the set of paths whose copy
\* raises (the exception is swallowed and the loop goes on).
RECURSIVE OnHullLoop(_, _, _, _, _, _)
OnHullLoop(lines, pos, first, kept, failed, bad) ==
    IF pos > Len(lines) THEN [copied |-> kept, failed |-> failed]
    ELSE LET parts == lines[pos] IN
         IF first /\ HasAlpha(parts)
         THEN OnHullLoop(lines, pos + 1, FALSE, kept, failed, bad)
         ELSE IF Len(parts) < 4
         THEN OnHullLoop(lines, pos + 1, FALSE, kept, failed, bad)
         ELSE IF parts[2] \notin DOMAIN ParseFloat
         THEN OnHullLoop(lines, pos + 1, FALSE, kept, failed, bad)
         ELSE IF ParseFloat[parts[2]] <= HullThreshold /\ parts[4] \in ExistingFiles
         THEN IF parts[4] \in bad
              THEN OnHullLoop(lines, pos + 1, FALSE, kept, failed \cup {parts[4]}, bad)
              ELSE OnHullLoop(lines, pos + 1, FALSE, kept \cup {parts[4]}, failed, bad)
         ELSE OnHullLoop(lines, pos + 1, FALSE, kept, failed, bad)

EnthInit ==
    /\ report = << >>
    /\ onhull = {}
    /\ copyFailed = {}
    /\ epc = "idle"
    /\ started = << >>
    /\ succeeded = {}
    /\ artifacts = {}
    /\ hull = << >>
    /\ hullAtStart = << >>
    /\ enthalpyCsv = << >>
    /\ predOut = << >>
    /\ formula = << >>
    /\ cause = "none"

\* A try block left without an exception.
BlockOk(block, arts) ==
    /\ epc = block
    /\ started' = Append(started, block)
    /\ succeeded' = succeeded \cup {block}
    /\ artifacts' = artifacts \cup arts
    /\ epc' = NextBlock(block)

\* A try block left through its except clause.
BlockFail(block, arts, why) ==
    /\ epc = block
    /\ started' = Append(started, block)
    /\ artifacts' = artifacts \cup arts
    /\ result' = EnthFailure(block)
    /\ cause' = why
    /\ epc' = AfterFailure(block)
    /\ UNCHANGED succeeded

\* Entry: enthalpy_dir.mkdir runs outside any try block.
EnthCall(mkdirOk) ==
    /\ epc \in {"idle", "done"}
    /\ Len(hull) + MaxPredLines <= MaxHullLen
    /\ tool' = "calculate_enthalpy"
    /\ started' = << >>
    /\ succeeded' = {}
    /\ artifacts' = {}
    /\ hullAtStart' = hull
    /\ formula' = << >>
    /\ cause' = "none"
    /\ IF mkdirOk
       THEN /\ result' = Pending
            /\ epc' = "discover"
       ELSE /\ result' = Raised("OSError")
            /\ epc' = "done"
    /\ report' = << >>
    /\ onhull' = {}
    /\ copyFailed' = {}
    /\ UNCHANGED <<nonenth, hull, enthalpyCsv, predOut>>

\* poscar_files = list(structure_path.rglob("POSCAR*")), guarded by the outer try only.
Discover(ok) ==
    /\ IF ok THEN BlockOk("discover", {}) /\ UNCHANGED <<result, cause>>
             ELSE BlockFail("discover", {}, "discover")
    /\ UNCHANGED <<tool, nonenth, hvars, hull, hullAtStart, enthalpyCsv, predOut, formula>>

GeoOpt(ok) ==
    /\ IF ok THEN BlockOk("geo_opt", {"trajectories"}) /\ UNCHANGED <<result, cause>>
             ELSE BlockFail("geo_opt", {}, "geo_opt")
    /\ UNCHANGED <<tool, nonenth, hvars, hull, hullAtStart, enthalpyCsv, predOut, formula>>

ParseTraj(ok) ==
    /\ IF ok THEN BlockOk("parse_traj", {"deepmd_npy"}) /\ UNCHANGED <<result, cause>>
             ELSE BlockFail("parse_traj", {}, "parse_traj")
    /\ UNCHANGED <<tool, nonenth, hvars, hull, hullAtStart, enthalpyCsv, predOut, formula>>

ToPoscar(ok) ==
    /\ IF ok THEN BlockOk("to_poscar", {"optimized_poscar"}) /\ UNCHANGED <<result, cause>>
             ELSE BlockFail("to_poscar", {}, "to_poscar")
    /\ UNCHANGED <<tool, nonenth, hvars, hull, hullAtStart, enthalpyCsv, predOut, formula>>

\* predict_enthalpy.py writes prediction/prediction.all.out.
PredictOk(out) ==
    /\ BlockOk("predict", {"prediction/prediction.all.out"})
    /\ predOut' = out
    /\ UNCHANGED <<result, cause, tool, nonenth, hvars, hull, hullAtStart, enthalpyCsv, formula>>

PredictFail ==
    /\ BlockFail("predict", {}, "predict")
    /\ UNCHANGED <<tool, nonenth, hvars, hull, hullAtStart, enthalpyCsv, predOut, formula>>

\* Rewrite outputs/enthalpy.csv from the prediction output.
EnthalpyFile ==
    LET r == ParseLoop(predOut, 1, << >>, formula) IN
    /\ enthalpyCsv' = <<CsvHeader>> \o r.rows
    /\ formula' = r.formula
    /\ IF r.ok
       THEN BlockOk("enthalpy_file", {"outputs/enthalpy.csv"}) /\ UNCHANGED <<result, cause>>
       ELSE BlockFail("enthalpy_file", {"outputs/enthalpy.csv"}, "predict")
    /\ UNCHANGED <<tool, nonenth, hvars, hull, hullAtStart, predOut>>

\* open() raised: enthalpy.csv could not be opened for writing (it keeps its
\* content), or the prediction file could not be opened (only the header is written).
EnthalpyFileIoFail(csvOpened) ==
    /\ IF csvOpened
       THEN /\ enthalpyCsv' = <<CsvHeader>>
            /\ BlockFail("enthalpy_file", {"outputs/enthalpy.csv"}, "enthalpy_file")
       ELSE /\ UNCHANGED enthalpyCsv
            /\ BlockFail("enthalpy_file", {}, "enthalpy_file")
    /\ UNCHANGED <<tool, nonenth, hvars, hull, hullAtStart, predOut, formula>>

AppendHullTruncating ==
    /\ BlockOk("append", {"geo_opt/convexhull.csv"})
    /\ hull' = DataLines(enthalpyCsv)
    /\ UNCHANGED <<result, cause, tool, nonenth, hvars, hullAtStart, enthalpyCsv, predOut,
                   formula>>
\* Append the data lines of enthalpy.csv to geo_opt/convexhull.csv.
AppendHull ==
    /\ BlockOk("append", {"geo_opt/convexhull.csv"})
    /\ hull' = hull \o DataLines(enthalpyCsv)
    /\ UNCHANGED <<result, cause, tool, nonenth, hvars, hullAtStart, enthalpyCsv, predOut, formula>>

\* The read or the append raised after k lines had reached the file.
AppendHullFail(k) ==
    /\ k <= Len(DataLines(enthalpyCsv))
    /\ k = 0 \/ k < Len(DataLines(enthalpyCsv))
    /\ BlockFail("append", IF k > 0 THEN {"geo_opt/convexhull.csv"} ELSE {}, "append")
    /\ hull' = hull \o SubSeq(DataLines(enthalpyCsv), 1, k)
    /\ UNCHANGED <<tool, nonenth, hvars, hullAtStart, enthalpyCsv, predOut, formula>>

\* str(formula) raises NameError while formula is unbound; otherwise
\* update_input.py runs and convexhull.csv and input.dat are copied to outputs.
UpdateInput(ok) ==
    /\ IF formula = << >>
       THEN BlockFail("update_input", {}, "predict")
       ELSE IF ok
       THEN BlockOk("update_input", {"outputs/convexhull.csv", "outputs/input.dat"})
            /\ UNCHANGED <<result, cause>>
       ELSE BlockFail("update_input", {}, "update_input")
    /\ UNCHANGED <<tool, nonenth, hvars, hull, hullAtStart, enthalpyCsv, predOut, formula>>

\* cak3.py --plotch runs, then convexhull.html and the report are copied to outputs.
HullBuild(rep) ==
    /\ BlockOk("hull_build", {"outputs/convexhull.html",
                              "outputs/e_above_hull_50meV.csv"})
    /\ report' = rep
    /\ UNCHANGED <<result, cause, tool, nonenth, onhull, copyFailed, hull, hullAtStart,
                   enthalpyCsv, predOut, formula>>

HullBuildFail ==
    /\ BlockFail("hull_build", {}, "hull_build")
    /\ UNCHANGED <<tool, nonenth, hvars, hull, hullAtStart, enthalpyCsv, predOut, formula>>

\* Copy the structures the report places on the hull to outputs/onhull_structures.
CollectOnHull(bad) ==
    LET r == OnHullLoop(report, 1, TRUE, {}, {}, bad) IN
    /\ BlockOk("collect_onhull", {"outputs/onhull_structures"})
    /\ onhull' = r.copied
    /\ copyFailed' = r.failed
    /\ result' = EnthSuccess
    /\ UNCHANGED <<cause, tool, nonenth, report, hull, hullAtStart, enthalpyCsv,
                   predOut, formula>>

\* mkdir or the open of the report raised.
CollectOnHullFail ==
    /\ BlockFail("collect_onhull", {}, "collect_onhull")
    /\ UNCHANGED <<tool, nonenth, hvars, hull, hullAtStart, enthalpyCsv, predOut, formula>>

EnthNext ==
    \/ \E ok \in BOOLEAN : EnthCall(ok)
    \/ \E ok \in BOOLEAN : Discover(ok)
    \/ \E ok \in BOOLEAN : GeoOpt(ok)
    \/ \E ok \in BOOLEAN : ParseTraj(ok)
    \/ \E ok \in BOOLEAN : ToPoscar(ok)
    \/ \E out \in PredOutputs : PredictOk(out)
    \/ PredictFail
    \/ EnthalpyFile
    \/ \E opened \in BOOLEAN : EnthalpyFileIoFail(opened)
    \/ AppendHull
    \/ \E k \in 0..MaxPredLines : AppendHullFail(k)
    \/ \E ok \in BOOLEAN : UpdateInput(ok)
    \/ \E rep \in Reports : HullBuild(rep)
    \/ HullBuildFail
    \/ \E bad \in CopyFailures : CollectOnHull(bad)
    \/ CollectOnHullFail

\* ====================================== screen_thermoelectric_candidate
MsgPathNotFound  == "Structure path not found"
MsgScreenFail    == "Thermoelectric candidates screen fail!"
MsgSgFailed      == "space group number get failed!"
MsgDensityFailed == "density get failed!"
MsgSvFailed      == "sound velocity get failed!"
MsgSaveFailed    == "thermoelectric_material_candidates.json save failed!"
MsgScreened      == "Predicted properties:"

\* The structure files that may lie under structure_path, numbered in the order
\* sorted() gives their paths.  For each file: the formula ase reads from it, the
\* values the property models give for it (band gap; log10 of G and of K), its
\* space group number and its density.
StructureFiles ==
    << [path |-> "a/POSCAR_1", fmt |-> "vasp", formula |-> "Bi2Te3", band_gap |-> 30,
        logG |-> 2, logK |-> 2, space_group_number |-> 166, density |-> 8000],
       [path |-> "a/x.cif",    fmt |-> "cif",  formula |-> "SnSe",   band_gap |-> 30,
        logG |-> 1, logK |-> 1, space_group_number |-> 75,  density |-> 8000],
       [path |-> "b/POSCAR_2", fmt |-> "vasp", formula |-> "PbTe",   band_gap |-> 49,
        logG |-> 1, logK |-> 1, space_group_number |-> 225, density |-> 8000],
       [path |-> "b/y.cif",    fmt |-> "cif",  formula |-> "PbTe",   band_gap |-> 0,
        logG |-> 2, logK |-> 2, space_group_number |-> 76,  density |-> 8000],
       [path |-> "c/POSCAR_3", fmt |-> "vasp", formula |-> "Bi2Te3", band_gap |-> 50,
        logG |-> 2, logK |-> 2, space_group_number |-> 166, density |-> 8000],
       [path |-> "c/z.cif",    fmt |-> "cif",  formula |-> "GeTe",   band_gap |-> 10,
        logG |-> 1, logK |-> 2, space_group_number |-> 160, density |-> 2000] >>

FileIds == DOMAIN StructureFiles
DirInputs == { d \in SUBSET FileIds : Cardinality(d) <= MaxStructs }

\* sorted(...) of a set of files: ascending by position in the path order.
RECURSIVE SortedFiles(_)
SortedFiles(S) ==
    IF S = {} THEN << >>
    ELSE LET m == CHOOSE x \in S : \A y \in S : x <= y
         IN  <<m>> \o SortedFiles(S \ {m})

\* sorted(rglob("POSCAR*")) + sorted(rglob("*.cif"))
StructuresOf(d) ==
    SortedFiles({ f \in d : StructureFiles[f].fmt = "vasp" })
        \o SortedFiles({ f \in d : StructureFiles[f].fmt = "cif" })

RECURSIVE Pow10(_)
Pow10(n) == IF n = 0 THEN 1 ELSE 10 * Pow10(n - 1)

\* props_results for one structure: band_gap as predicted, G and K as 10 ** value.
PropsOf(f) ==
    [formula  |-> StructureFiles[f].formula,
     band_gap |-> StructureFiles[f].band_gap,
     G        |-> Pow10(StructureFiles[f].logG),
     K        |-> Pow10(StructureFiles[f].logK),
     path     |-> f]

\* d[key] = value on an insertion-ordered dict held as a list of entries: a key
\* already present keeps its position and takes the new value.
PutKeepFirst(m, e) ==
    IF \E k \in 1..Len(m) : m[k].formula = e.formula THEN m ELSE Append(m, e)
Put(m, e) ==
    IF \E k \in 1..Len(m) : m[k].formula = e.formula
    THEN [k \in 1..Len(m) |-> IF m[k].formula = e.formula THEN e ELSE m[k]]
    ELSE Append(m, e)

\* calculate_sound_velocities(K, G, density), rounded to 1 m/s, for the moduli
\* and densities of StructureFiles.
calculate_sound_velocities(K, G, density) ==
    CASE K = 100 /\ G = 100 /\ density = 8000 -> 3874
      [] K = 10  /\ G = 10  /\ density = 8000 -> 1225
      [] K = 100 /\ G = 10  /\ density = 2000 -> 2549

get_space_group_number(f) == StructureFiles[f].space_group_number
get_structure_density(f) == StructureFiles[f].density

\* The two nested conditions of the screening loop.
BandGapPassesInclusive(band_gap) == band_gap <= BandGapLimit
BandGapPasses(band_gap) == band_gap < BandGapLimit
SpaceGroupPasses(sg) == sg > SpaceGroupLimit

\* sorted(thermoelectric_candidates.items(), key=sound_velocity), as a dict.
SortCandidatesUnsorted(c) == c
SortCandidates(c) ==
    LET idx == SortedIndices([k \in 1..Len(c) |-> c[k].sound_velocity])
    IN  [k \in 1..Len(c) |-> c[idx[k]]]

ScreenFailure(value, msg) == Returned(("thermoelectric_file" :> value), msg)
ScreenSuccess == Returned(("thermoelectric_file" :> "path"), MsgScreened)

NoFile == [exists |-> FALSE, content |-> << >>]

ScreenInit ==
    /\ spc = "idle"
    /\ sdir = {}
    /\ structures = << >>
    /\ si = 1
    /\ results = << >>
    /\ predicted = {}
    /\ predFailure = "none"
    /\ properties = << >>
    /\ fi = 1
    /\ candidates = << >>
    /\ sgComputed = {}
    /\ candFile = NoFile
    /\ candWritten = FALSE

nonscreen == <<gvars, evars, hvars, cvars>>

\* Entry: the path check, then the call of predict_thermoelectric_properties.
ScreenCall(d, exists) ==
    /\ spc \in {"idle", "done"}
    /\ exists \/ d = {}
    /\ tool' = "screen_thermoelectric_candidate"
    /\ sdir' = d
    /\ structures' = IF exists THEN StructuresOf(d) ELSE << >>
    /\ si' = 1
    /\ results' = << >>
    /\ predicted' = {}
    /\ predFailure' = "none"
    /\ properties' = << >>
    /\ fi' = 1
    /\ candidates' = << >>
    /\ sgComputed' = {}
    /\ candWritten' = FALSE
    /\ IF exists
       THEN /\ result' = Pending
            /\ spc' = "predict"
       ELSE /\ result' = Returned(("results" :> "{}"), MsgPathNotFound)
            /\ spc' = "done"
    /\ UNCHANGED <<candFile, nonscreen>>

FilterPc(i, n) == IF i <= n THEN "filter" ELSE "write"

\* One turn of the prediction loop: read the structure, predict band_gap, G, K.
PredictStructure ==
    /\ spc = "predict"
    /\ si <= Len(structures)
    /\ results' = Put(results, PropsOf(structures[si]))
    /\ predicted' = predicted \cup {structures[si]}
    /\ si' = si + 1
    /\ UNCHANGED <<result, tool, spc, sdir, structures, predFailure, properties, fi,
                   candidates, sgComputed, candFile, candWritten, nonscreen>>

\* io.read or a model evaluation raised: the prediction returns
\* {"results": {}, "properties": {}, "message": ...} and the screening goes on
\* with an empty mapping.
PredictStructureFail(why) ==
    /\ spc = "predict"
    /\ si <= Len(structures)
    /\ why \in {"read", "prediction"}
    /\ predFailure' = why
    /\ properties' = << >>
    /\ fi' = 1
    /\ spc' = FilterPc(1, 0)
    /\ UNCHANGED <<result, tool, sdir, structures, si, results, predicted, candidates,
                   sgComputed, candFile, candWritten, nonscreen>>

\* A model file is missing: the prediction returns without the "properties" key,
\* results["properties"] raises KeyError and the outer except clause returns.
PredictModelMissing ==
    /\ spc = "predict"
    /\ si <= Len(structures)
    /\ predFailure' = "model"
    /\ result' = ScreenFailure("[]", MsgScreenFail)
    /\ spc' = "done"
    /\ UNCHANGED <<tool, sdir, structures, si, results, predicted, properties, fi,
                   candidates, sgComputed, candFile, candWritten, nonscreen>>

\* After the loop the prediction writes thermoelectric_properties.json and
\* returns its mapping; if the write raises it returns "properties": {}.
PredictReturn(writeOk) ==
    /\ spc = "predict"
    /\ si > Len(structures)
    /\ properties' = IF writeOk THEN results ELSE << >>
    /\ predFailure' = IF writeOk THEN "none" ELSE "write"
    /\ fi' = 1
    /\ spc' = FilterPc(1, IF writeOk THEN Len(results) ELSE 0)
    /\ UNCHANGED <<result, tool, sdir, structures, si, results, predicted, candidates,
                   sgComputed, candFile, candWritten, nonscreen>>

\* One turn of the screening loop over structures_properties.items().
ScreenStructure(sgOk, densityOk, svOk) ==
    /\ spc = "filter"
    /\ LET e == properties[fi]
           sg == get_space_group_number(e.path)
       IN  IF ~BandGapPasses(e.band_gap)
           THEN /\ fi' = fi + 1
                /\ spc' = FilterPc(fi + 1, Len(properties))
                /\ UNCHANGED <<result, candidates, sgComputed>>
           ELSE /\ sgComputed' = sgComputed \cup {e.path}
                /\ IF ~sgOk
                   THEN /\ result' = ScreenFailure("{}", MsgSgFailed)
                        /\ spc' = "done"
                        /\ UNCHANGED <<fi, candidates>>
                   ELSE IF ~SpaceGroupPasses(sg)
                   THEN /\ fi' = fi + 1
                        /\ spc' = FilterPc(fi + 1, Len(properties))
                        /\ UNCHANGED <<result, candidates>>
                   ELSE IF ~densityOk
                   THEN /\ result' = ScreenFailure("{}", MsgDensityFailed)
                        /\ spc' = "done"
                        /\ UNCHANGED <<fi, candidates>>
                   ELSE IF ~svOk
                   THEN /\ result' = ScreenFailure("{}", MsgSvFailed)
                        /\ spc' = "done"
                        /\ UNCHANGED <<fi, candidates>>
                   ELSE /\ candidates' = Put(candidates,
                               [formula            |-> e.formula,
                                sound_velocity     |-> calculate_sound_velocities(
                                                           e.K, e.G,
                                                           get_structure_density(e.path)),
                                space_group_number |-> sg,
                                band_gap           |-> e.band_gap,
                                path               |-> e.path])
                        /\ fi' = fi + 1
                        /\ spc' = FilterPc(fi + 1, Len(properties))
                        /\ UNCHANGED result
    /\ UNCHANGED <<tool, sdir, structures, si, results, predicted, predFailure, properties,
                   candFile, candWritten, nonscreen>>

\* Sort the candidates and write thermoelectric_material_candidates.json.
WriteCandidates ==
    /\ spc = "write"
    /\ candFile' = [exists |-> TRUE, content |-> SortCandidates(candidates)]
    /\ candWritten' = TRUE
    /\ result' = ScreenSuccess
    /\ spc' = "done"
    /\ UNCHANGED <<tool, sdir, structures, si, results, predicted, predFailure, properties,
                   fi, candidates, sgComputed, nonscreen>>

\* mkdir or open raised (the file is untouched), or json.dump raised after the
\* file was opened for writing (the file is left truncated).
WriteCandidatesFail(opened) ==
    /\ spc = "write"
    /\ candFile' = IF opened THEN [exists |-> TRUE, content |-> << >>] ELSE candFile
    /\ candWritten' = opened
    /\ result' = ScreenFailure("{}", MsgSaveFailed)
    /\ spc' = "done"
    /\ UNCHANGED <<tool, sdir, structures, si, results, predicted, predFailure, properties,
                   fi, candidates, sgComputed, nonscreen>>

ScreenNext ==
    \/ \E d \in DirInputs, exists \in BOOLEAN : ScreenCall(d, exists)
    \/ PredictStructure
    \/ \E why \in {"read", "prediction"} : PredictStructureFail(why)
    \/ PredictModelMissing
    \/ \E ok \in BOOLEAN : PredictReturn(ok)
    \/ \E sgOk, densityOk, svOk \in BOOLEAN : ScreenStructure(sgOk, densityOk, svOk)
    \/ WriteCandidates
    \/ \E opened \in BOOLEAN : WriteCandidatesFail(opened)

\* ======================================= concurrent calculate_enthalpy calls
\* Two calls of calculate_enthalpy in flight at once.  They share the files
\* prediction/prediction.all.out, outputs/enthalpy.csv and convexhull.csv; each
\* stage of a call is one step.  A caller that serializes admits a call only
\* when no other call is in progress.
Calls == {1, 2}
Finished == {"idle", "done", "failed"}

ConcInit ==
    /\ serialized = FALSE
    /\ cpc = [p \in Calls |-> "idle"]
    /\ cown = [p \in Calls |-> << >>]
    /\ cappended = [p \in Calls |-> << >>]

nonconc == <<result, tool, gvars, hvars, svars, epc, started, succeeded, artifacts,
             hullAtStart, formula, cause>>

\* The caller decides, before the first call, to run the calls one at a time.
Serialize ==
    /\ ~serialized
    /\ \A p \in Calls : cpc[p] = "idle"
    /\ serialized' = TRUE
    /\ UNCHANGED <<cpc, cown, cappended, hull, enthalpyCsv, predOut, nonconc>>

\* The call runs up to its prediction stage.
ConcCall(p) ==
    /\ cpc[p] = "idle"
    /\ serialized => \A q \in Calls \ {p} : cpc[q] \in Finished
    /\ cpc' = [cpc EXCEPT ![p] = "predict"]
    /\ UNCHANGED <<serialized, cown, cappended, hull, enthalpyCsv, predOut, nonconc>>

\* predict_enthalpy.py writes prediction/prediction.all.out for this call.
ConcPredict(p, out) ==
    /\ cpc[p] = "predict"
    /\ predOut' = out
    /\ cown' = [cown EXCEPT ![p] = out]
    /\ cpc' = [cpc EXCEPT ![p] = "enthalpy_file"]
    /\ UNCHANGED <<serialized, cappended, hull, enthalpyCsv, nonconc>>

\* The call rewrites outputs/enthalpy.csv from the prediction output on disk.
ConcEnthalpyFile(p) ==
    LET r == ParseLoop(predOut, 1, << >>, << >>) IN
    /\ cpc[p] = "enthalpy_file"
    /\ enthalpyCsv' = <<CsvHeader>> \o r.rows
    /\ cpc' = [cpc EXCEPT ![p] = IF r.ok THEN "append" ELSE "failed"]
    /\ UNCHANGED <<serialized, cown, cappended, hull, predOut, nonconc>>

\* The call appends the data lines of outputs/enthalpy.csv to convexhull.csv.
ConcAppend(p) ==
    /\ cpc[p] = "append"
    /\ hull' = hull \o DataLines(enthalpyCsv)
    /\ cappended' = [cappended EXCEPT ![p] = DataLines(enthalpyCsv)]
    /\ cpc' = [cpc EXCEPT ![p] = "done"]
    /\ UNCHANGED <<serialized, cown, enthalpyCsv, predOut, nonconc>>

ConcNext ==
    \/ Serialize
    \/ \E p \in Calls : ConcCall(p)
    \/ \E p \in Calls, out \in PredOutputs : ConcPredict(p, out)
    \/ \E p \in Calls : ConcEnthalpyFile(p)
    \/ \E p \in Calls : ConcAppend(p)

Init ==
    /\ result = Pending
    /\ tool = "none"
    /\ GenInit
    /\ EnthInit
    /\ ScreenInit
    /\ ConcInit

SpecGen == Init /\ [][GenNext]_vars

SpecEnth == Init /\ [][EnthNext]_vars

SpecScreen == Init /\ [][ScreenNext]_vars

SpecConc == Init /\ [][ConcNext]_vars

SpecGenSeq == Init /\ [][GenSeqNext]_vars

\* ================================================================= claims
Range(f) == { f[k] : k \in DOMAIN f }
IsPrefix(a, b) == Len(a) <= Len(b) /\ \A k \in 1..Len(a) : a[k] = b[k]

SuccessMessages == {MsgGenSuccess, MsgEnthSuccess}
IsFailureReturn == result.status = "returned" /\ result.message \notin SuccessMessages
IsSuccessReturn == result.status = "returned" /\ result.message \in SuccessMessages

\* The payload fields the result types declare for each tool.
PayloadFields(t) ==
    CASE t = "generate_calypso_structure" -> {"poscar_paths"}
      [] t = "calculate_enthalpy" -> {"enthalpy_file", "onhull_structures"}
      [] OTHER -> {}

\* C1: every call ends by returning a result object and no exception crosses
\* the tool boundary; in particular generate_calypso_structure called with a
\* species symbol that is not in the element table does not end in the
\* ValueError of get_props.
C1_NoExceptionCrossesBoundary ==
    ~(tool = "generate_calypso_structure" /\ result = Raised("ValueError"))

\* C2: every returned result has a message, and a failure return carries each
\* payload field of its tool, present and empty or null.
C2_FailurePayloadPresentAndEmpty ==
    IsFailureReturn =>
        /\ DOMAIN result.payload = PayloadFields(tool)
        /\ \A f \in DOMAIN result.payload : result.payload[f] \in EmptyValues

\* C3: within one calculate_enthalpy call the try blocks are entered in their
\* fixed order, a block is entered only after every earlier block of the call
\* succeeded, after a failure the call is over (no later block, no retry), and
\* nothing an earlier block wrote is removed or rewritten later in the call.
C3_Order ==
    /\ IsPrefix(started, Blocks)
    /\ \A k \in 1..(Len(started) - 1) : started[k] \in succeeded
    /\ (tool = "calculate_enthalpy" /\ IsFailureReturn) =>
          /\ epc = "done"
          /\ started # << >>
          /\ started[Len(started)] \notin succeeded
C3_Step ==
    (epc \notin {"idle", "done"}) =>
        /\ artifacts \subseteq artifacts'
        /\ IsPrefix(started, started')
        /\ Len(started') <= Len(started) + 1
        /\ IsPrefix(hull, hull')
        /\ (enthalpyCsv' # enthalpyCsv => epc = "enthalpy_file")
        /\ (predOut' # predOut => epc = "predict")
\* C3: C3_Order holds in every state and C3_Step on every step of a call.
C3_StagesInOrderFailStop == [] C3_Order /\ [][C3_Step]_vars
C3_Witness ==
    /\ IsFailureReturn
    /\ result.message = MsgHullBuild
    /\ "outputs/enthalpy.csv" \in artifacts
    /\ hull # hullAtStart

\* The stage of the pipeline description each try block belongs to.
StageOf(block) ==
    CASE block \in {"discover", "geo_opt"} -> 1
      [] block = "parse_traj" -> 2
      [] block = "to_poscar" -> 3
      [] block \in {"predict", "enthalpy_file"} -> 4
      [] block = "append" -> 5
      [] block \in {"update_input", "hull_build"} -> 6
      [] block = "collect_onhull" -> 7
MessageBlock(msg) == CHOOSE b \in Range(Blocks) : FailureMessage(b) = msg

\* C4: the failure messages of the try blocks are pairwise distinct, and a failed
\* calculate_enthalpy call reports the message of the stage in which the cause
\* of the error lies.
C4_MessageNamesFailingStage ==
    /\ \A a, b \in Range(Blocks) : a # b => FailureMessage(a) # FailureMessage(b)
    /\ (tool = "calculate_enthalpy" /\ IsFailureReturn) =>
          StageOf(MessageBlock(result.message)) = StageOf(cause)

\* C5 as stated: a calculate_enthalpy call that fails at or after convex-hull
\* recomputation leaves the persistent dataset as it found it.
C5_FailedCallLeavesDataset ==
    (/\ tool = "calculate_enthalpy"
     /\ IsFailureReturn
     /\ Range(started) \cap {"update_input", "hull_build", "collect_onhull"} # {})
        => hull = hullAtStart

\* C5 amended: a call that fails before its accumulation block leaves the
\* dataset as it found it; a call that fails after the accumulation block
\* leaves the dataset extended by exactly the data rows of its enthalpy.csv.
C5_FailedCallDataset ==
    (tool = "calculate_enthalpy" /\ result.status # "pending" /\ ~IsSuccessReturn) =>
        /\ "append" \notin Range(started) => hull = hullAtStart
        /\ "append" \in succeeded =>
              hull = hullAtStart \o SubSeq(enthalpyCsv, 2, Len(enthalpyCsv))
C5_Witness ==
    /\ tool = "calculate_enthalpy"
    /\ IsFailureReturn
    /\ "hull_build" \in Range(started)
    /\ Len(hull) = Len(hullAtStart) + 2

GenDone == tool = "generate_calypso_structure" /\ gpc = "done"
GenSucceeded == GenDone /\ result.status = "returned" /\ result.message = MsgGenSuccess

Bijections(n) ==
    { p \in [1..n -> 1..n] : \A a, b \in 1..n : p[a] = p[b] => a = b }
RadiusOf(sym) == ELEMENT_PROPS[sym].r

\* C7 as stated: in every input.dat the atomic numbers are non-decreasing and
\* entry (i,j) of the @DistanceOfIon matrix equals (radius of the i-th listed
\* species + radius of the j-th listed species) x 0.529.
C7_EntriesEqualRadiusSum ==
    inputDat.written =>
        \A i, j \in 1..Len(species) :
            1000 * inputDat.DistanceOfIon[i][j] =
                (RadiusOf(inputDat.NameOfAtoms[i]) + RadiusOf(inputDat.NameOfAtoms[j])) * 529

\* C7 amended: the atomic numbers are non-decreasing; names, counts and matrix
\* are the arguments permuted by one permutation (matrix by row and column);
\* entry (i,j) is (radius of the i-th listed species + radius of the j-th) x 0.529
\* rounded to the three decimals written; the matrix is symmetric, and permuting
\* it back gives the matrix computed before the reordering, rounded likewise.
C7_ReorderedConsistently ==
    inputDat.written =>
        LET n == Len(species)
            d == inputDat.DistanceOfIon
            exact(a, b) == (RadiusOf(a) + RadiusOf(b)) * 529
            rounds(x, y) == 1000 * y - 500 <= x /\ x <= 1000 * y + 500
        IN  /\ inputDat.NumberOfSpecies = n
            /\ \A k \in 1..(n - 1) :
                  inputDat.AtomicNumber[k] <= inputDat.AtomicNumber[k + 1]
            /\ \E p \in Bijections(n) :
                  /\ \A k \in 1..n :
                        /\ inputDat.NameOfAtoms[k] = species[p[k]]
                        /\ inputDat.SystemName[k] = species[p[k]]
                        /\ inputDat.AtomicNumber[k] = ELEMENT_PROPS[species[p[k]]].Z
                        /\ inputDat.NumberOfAtoms[k] = n_list[p[k]]
                  /\ \A i, j \in 1..n :
                        rounds(exact(species[p[i]], species[p[j]]), d[i][j])
            /\ \A i, j \in 1..n :
                  /\ rounds(exact(inputDat.NameOfAtoms[i], inputDat.NameOfAtoms[j]), d[i][j])
                  /\ d[i][j] = d[j][i]
C7_Witness ==
    /\ inputDat.written
    /\ species = <<"Mg", "H", "O">>
    /\ inputDat.NameOfAtoms = <<"H", "O", "Mg">>
    /\ n_list = <<3, 1, 2>>
    /\ inputDat.NumberOfAtoms = <<1, 2, 3>>
    /\ inputDat.DistanceOfIon[2][3] = 1688

\* C8: input.dat of workspace i is written before the external command is run
\* for i, and is still there after the run and after the pruning, also when the
\* run left no POSCAR_1.
C8_InputWrittenFirstAndKept ==
    tool = "generate_calypso_structure" =>
        /\ invoked \subseteq written
        /\ pruned \subseteq invoked
        /\ gpc \in {"check", "invoke", "prune"} => gi \in written
        /\ \A i \in written : ws[i].ent["input.dat"] = "file"
C8_Witness ==
    /\ tool = "generate_calypso_structure"
    /\ \E i \in pruned : ws[i].ent["POSCAR_1"] = "none" /\ ws[i].ent["input.dat"] = "file"

\* C9: after the iteration for a candidate (external run, then pruning) its
\* workspace holds nothing but input.dat and possibly POSCAR_1, whatever the
\* external tools wrote.
C9_OnlyInputAndPoscarRemain ==
    tool = "generate_calypso_structure" =>
        \A i \in pruned :
            \A n \in EntryNames \ {"input.dat", "POSCAR_1"} : ws[i].ent[n] = "none"

\* C10: a collection step that completes has copied POSCAR_1 of exactly the
\* workspaces that have one, the j-th such workspace in enumeration order
\* (j = 0, 1, ...) to POSCAR_j, with no gap; k copies for k such workspaces.
C10_CollectedInOrderNoGap ==
    GenSucceeded =>
        LET has(w) == ws[w].ent["POSCAR_1"] # "none"
            E == SelectSeq(enumOrder, has)
        IN  /\ Range(enumOrder) = { w \in WsIndex : ws[w].dir }
            /\ Len(enumOrder) = Cardinality(Range(enumOrder))
            /\ Len(copies) = Len(E)
            /\ \A j \in 1..Len(E) :
                  /\ copies[j].idx = j - 1
                  /\ copies[j].src = E[j]
                  /\ finalDir[j - 1].src = E[j]
C10_Witness ==
    /\ GenSucceeded
    /\ Len(enumOrder) = 2
    /\ ws[enumOrder[1]].ent["POSCAR_1"] = "none"
    /\ copies = << [idx |-> 0, src |-> enumOrder[2]] >>

ScreenTool == tool = "screen_thermoelectric_candidate"
ScreenReturned == ScreenTool /\ spc = "done" /\ result.status = "returned"
ScreenSucceeded == ScreenReturned /\ result.message = MsgScreened
Formulas(m) == { m[k].formula : k \in 1..Len(m) }
FormulaSeq(m) == [k \in 1..Len(m) |-> m[k].formula]

C12_SortedStablePermutation ==
    ScreenSucceeded =>
        LET out == candFile.content
            n   == Len(candidates)
        IN  /\ Len(out) = n
            /\ \E p \in Bijections(n) :
                  /\ \A k \in 1..n : out[k] = candidates[p[k]]
                  /\ \A k \in 1..(n - 1) :
                        \/ out[k].sound_velocity < out[k + 1].sound_velocity
                        \/ /\ out[k].sound_velocity = out[k + 1].sound_velocity
                           /\ p[k] < p[k + 1]
C12_Witness ==
    /\ ScreenSucceeded
    /\ FormulaSeq(candidates) = << "Bi2Te3", "PbTe", "GeTe" >>
    /\ FormulaSeq(candFile.content) = << "GeTe", "Bi2Te3", "PbTe" >>
    /\ candFile.content[2].sound_velocity = candFile.content[3].sound_velocity

\* The structure iterated last among those with formula fm.
LastWith(fm) ==
    LET ks == { k \in 1..Len(structures) : StructureFiles[structures[k]].formula = fm }
    IN  structures[CHOOSE k \in ks : \A j \in ks : j <= k]
Passes(f) ==
    StructureFiles[f].band_gap < 50 /\ StructureFiles[f].space_group_number > 75

\* C14: when several structures have the same formula the later one overwrites
\* the earlier: the result holds at most one entry per formula, the entry is
\* that of the last structure with the formula (band gap, space group, sound
\* velocity, path), and that structure alone decides whether the formula passes.
C14_LastStructureWins ==
    (ScreenTool /\ predFailure = "none" /\ spc \in {"filter", "write", "done"}) =>
        /\ \A a, b \in 1..Len(properties) :
              properties[a].formula = properties[b].formula => a = b
        /\ Formulas(properties) = { StructureFiles[f].formula : f \in Range(structures) }
        /\ \A k \in 1..Len(properties) :
              LET last == LastWith(properties[k].formula) IN
              /\ properties[k].path = last
              /\ properties[k].band_gap = StructureFiles[last].band_gap
        /\ ScreenSucceeded =>
              LET out == candFile.content IN
              /\ \A a, b \in 1..Len(out) : out[a].formula = out[b].formula => a = b
              /\ \A fm \in Formulas(properties) :
                    (fm \in Formulas(out)) <=> Passes(LastWith(fm))
              /\ \A k \in 1..Len(out) :
                    LET last == LastWith(out[k].formula) IN
                    /\ out[k].path = last
                    /\ out[k].band_gap = StructureFiles[last].band_gap
                    /\ out[k].space_group_number = StructureFiles[last].space_group_number
                    /\ out[k].sound_velocity =
                           calculate_sound_velocities(Pow10(StructureFiles[last].logK),
                                                      Pow10(StructureFiles[last].logG),
                                                      StructureFiles[last].density)
C14_Witness ==
    /\ ScreenSucceeded
    /\ structures = << 1, 5, 4 >>
    /\ FormulaSeq(properties) = << "Bi2Te3", "PbTe" >>
    /\ FormulaSeq(candFile.content) = << "PbTe" >>

\* C19: if the delegated prediction fails for a structure (read failure,
\* prediction failure, missing model) the screening returns a failure result
\* with an empty thermoelectric_file and does not write the candidates file; it
\* returns success only when band_gap, G and K were predicted for every structure.
C19_PredictionFailureFailsScreening ==
    ScreenReturned =>
        /\ predFailure \in {"read", "prediction", "model"} =>
              /\ result.message # MsgScreened
              /\ DOMAIN result.payload = {"thermoelectric_file"}
              /\ result.payload["thermoelectric_file"] \in EmptyValues
              /\ ~candWritten
        /\ result.message = MsgScreened => predicted = Range(structures)

EnthTool == tool = "calculate_enthalpy"

\* A row of the report that carries an energy and a path.
IsDataRow(parts) == Len(parts) >= 4 /\ parts[2] \in {"0.05", "0.0500001", "0.0"}
EnergyOf(parts) ==
    CASE parts[2] = "0.05" -> 500000
      [] parts[2] = "0.0500001" -> 500001
      [] parts[2] = "0.0" -> 0
OnHullRow(parts) ==
    /\ IsDataRow(parts)
    /\ EnergyOf(parts) <= 500000
    /\ parts[4] \in {"optimized_poscar/POSCAR_0", "optimized_poscar/POSCAR_1", "0/4"}

\* C13: the on-hull collection copies the structure of every data row of the
\* report whose energy above the hull is at most 0.05 and whose file exists,
\* whether or not the report starts with a header row (a copy that raises
\* aside), and copies nothing else.
C13_RetainedIffOnHullAndExists ==
    (EnthTool /\ "collect_onhull" \in succeeded) =>
        /\ \A k \in 1..Len(report) :
              (OnHullRow(report[k]) /\ report[k][4] \notin copyFailed)
                  => report[k][4] \in onhull
        /\ \A f \in onhull :
              \E k \in 1..Len(report) : OnHullRow(report[k]) /\ report[k][4] = f

\* The rows of the prediction output: one per non-blank line, in order.
RECURSIVE OwnRecords(_)
OwnRecords(lines) ==
    IF lines = << >> THEN << >>
    ELSE LET h == Head(lines) IN
         (IF Len(h) < 6 THEN << >> ELSE << << h[1], h[6], h[3] >> >>)
             \o OwnRecords(Tail(lines))

\* C15: under calls made one after another the dataset only grows at its end:
\* what it held when a call started is a prefix of what it holds later; a call
\* that has not reached the accumulation has left it alone; a call whose
\* accumulation completed has appended exactly its own records, one per
\* non-blank prediction line in order, without the header line; an accumulation
\* that raised has appended the first of them.
C15_DatasetAppendOnly ==
    (EnthTool /\ epc # "idle") =>
        /\ IsPrefix(hullAtStart, hull)
        /\ "append" \notin Range(started) => hull = hullAtStart
        /\ "append" \in succeeded => hull = hullAtStart \o OwnRecords(predOut)
        /\ ("append" \in Range(started) /\ "append" \notin succeeded) =>
              \E k \in 0..Len(OwnRecords(predOut)) :
                  hull = hullAtStart \o SubSeq(OwnRecords(predOut), 1, k)
C15_Witness ==
    /\ EnthTool
    /\ "append" \in succeeded
    /\ hullAtStart # << >>
    /\ Len(predOut) = 2
    /\ Len(hull) = Len(hullAtStart) + 1

\* C16: the script is looked for before the predictor is run for a candidate;
\* when it is missing the call returns a failure with poscar_paths null, the
\* predictor has not been run for that candidate nor for a later one (not at all
\* if the script was missing at the first candidate), no later candidate has
\* been started and the collection has not run.
C16_MissingScriptStopsCall ==
    (GenDone /\ result.status = "returned" /\ result.message = MsgFlimMissing) =>
        /\ result.payload = ("poscar_paths" :> "None")
        /\ gi \in written
        /\ invoked = 0..(gi - 1)
        /\ written = 0..gi
        /\ pruned = invoked
        /\ enumOrder = << >>
        /\ copies = << >>
        /\ \A k \in WsIndex : finalDir[k] = NoStructure
C16_Witness ==
    /\ GenDone
    /\ result.message = MsgFlimMissing
    /\ n_tot = 2
    /\ gi = 0
    /\ invoked = {}
    /\ written = {0}

\* C17: with two calls in flight and no serialization a call can append rows
\* that are not the records of its own prediction output; when the caller runs
\* the calls one at a time every call that completes its accumulation has
\* appended exactly its own records and the dataset holds them call after call.
C17_SerializedCallsAppendOwnRecords ==
    serialized =>
        /\ \A p \in Calls : cpc[p] = "done" => cappended[p] = OwnRecords(cown[p])
        /\ \E order \in Orders(Calls) :
              hull = cappended[order[1]] \o cappended[order[2]]
C17_Witness ==
    /\ ~serialized
    /\ cpc[1] = "done"
    /\ cown[1] = << Rec1 >>
    /\ cappended[1] = OwnRecords(<< Rec2 >>)
    /\ cown[2] = << Rec2 >>

\* C18: the collection of a successful call holds only structures produced by
\* that call: at most n_tot files, none copied from a POSCAR_1 that an earlier
\* call left in a workspace, and no POSCAR_k of an earlier call.
C18_CollectionOfThisCallOnly ==
    (GenSucceeded /\ priorOk) =>
        /\ Cardinality({ k \in WsIndex : finalDir[k] # NoStructure }) <= n_tot
        /\ \A k \in WsIndex : finalDir[k] # NoStructure => finalDir[k].gen = gcall
        /\ \A j \in 1..Len(copies) :
              /\ copies[j].src \in invoked
              /\ ws[copies[j].src].gen = gcall

====
